---- MODULE Spec2Model ----
(***************************************************************************)
(* Model of class Image (src/src/image.cpp): a wrapper over a CImg<double> *)
(* pixel buffer with width/height/channels metadata, bilinear and          *)
(* horizontal-linear sampling, and luminance grayscale conversion.         *)
(*                                                                         *)
(* Numbers.  Samples are doubles.  They are modelled as exact rationals    *)
(* in fixed point: a stored sample is an integer count of hundredths       *)
(* (the luminance weights 0.3, 0.59, 0.11 are hundredths), continuous      *)
(* coordinates are an integer count of 1/Grid, a value returned by at()    *)
(* is an integer count of 1/(100*Grid^2) and one returned by atH() of      *)
(* 1/(100*Grid).  size_t arithmetic wraps modulo SizeTMod.                 *)
(*                                                                         *)
(* Memory.  Pixel buffers live in `heap`; a CImg value refers to its       *)
(* buffer by id, so that ownership, release and aliasing are visible.      *)
(***************************************************************************)
EXTENDS Integers, Sequences, FiniteSets, TLC

VARIABLES images, heap, last

vars == <<images, heap, last>>

\* ---------------------------------------------------------------- bounds
\* Largest width/height of a decoded file, an external store or a request.
MaxDim == 2
\* Largest channel count of a decoded file, an external store or a request.
MaxSpectrum == 3
\* Continuous coordinates are multiples of 1/Grid.
Grid == 4

\* width, height and channels are size_t, as the constructors' parameters
\* and size()'s return type are.  The modulus of size_t (2^64) is scaled
\* down to fit TLC's 32-bit integers; what matters is that 0 - 1 wraps to a
\* value far above every coordinate.
SizeTMod == 4096

\* Two instances: an image and the one toGrayscale() makes of it.
Slots == {1, 2}
\* One buffer per instance and one for the caller's store.
BufIds == {1, 2, 3}
Null == 0
Free == <<-1>>

Dims == 0..MaxDim
Spectra == 0..MaxSpectrum
\* Sample contents of decoded files.
Patterns == {"ramp", "red"}
\* Sample contents of the caller's stores.
StorePatterns == {"ramp"}
\* Shapes of the caller's stores: populated ones and the empty one.
StoreShapes == ((1..MaxDim) \X (1..MaxDim) \X (1..MaxSpectrum)) \cup {<<0, 0, 0>>}
\* What an uninitialised buffer may hold.
GarbagePatterns == {"zero", "ramp"}
\* Fill values passed to Image(width, height, channels, val).
FillValues == {0, 7}
\* Continuous coordinates, in steps of 1/Grid: from -1/Grid to
\* MaxDim - 1 + 1/Grid.
Coords == (-1)..(Grid * (MaxDim - 1) + 1)
\* What an out-of-bounds read may produce: a crash or some value.
Oracles == {[crash |-> TRUE, junk |-> 0], [crash |-> FALSE, junk |-> 25500]}

\* ------------------------------------------------------ the backing store
\* CImg<double> with depth 1: dimensions and the buffer it refers to.
EmptyCImg == [w |-> 0, h |-> 0, s |-> 0, data |-> Null]

\* Linear offset of (x, y, 0, c), as CImg::operator() computes it.
Offset(im, x, y, c) == x + y * im.w + c * im.w * im.h

\* (x, y, c) lies within the store's own extent.
InRange(im, x, y, c) ==
    /\ 0 <= x /\ x < im.w
    /\ 0 <= y /\ y < im.h
    /\ 0 <= c /\ c < im.s

\* The offset of (x, y, c) lies within the store's allocation.
InAlloc(im, h, x, y, c) ==
    /\ im.data # Null
    /\ 0 <= Offset(im, x, y, c)
    /\ Offset(im, x, y, c) < im.w * im.h * im.s

\* img(x, y, 0, c): the sample, or what the oracle says when the read is
\* outside the allocation.
Pixel(im, h, x, y, c, ub) ==
    IF InAlloc(im, h, x, y, c)
    THEN h[im.data][Offset(im, x, y, c) + 1]
    ELSE ub.junk

\* Intensity (integer units) of a file or external store at (x, y, c).
PatternAt(p, W, H, x, y, c) ==
    CASE p = "ramp" -> 1 + y + H * x + H * W * c
      [] p = "red"  -> IF c = 0 THEN 255 ELSE 0
      [] OTHER      -> 0

\* The samples of a W x H x S buffer holding pattern p, in hundredths.
Samples(p, W, H, S) ==
    [k \in 1..(W * H * S) |->
        100 * PatternAt(p, W, H, (k - 1) % W, ((k - 1) \div W) % H,
                        (k - 1) \div (W * H))]

\* A W x H x S buffer filled with val, in hundredths.
Filled(val, W, H, S) == [k \in 1..(W * H * S) |-> 100 * val]

FreeBuf(h) == CHOOSE b \in BufIds : h[b] = Free /\ \A a \in BufIds : h[a] = Free => b <= a

\* CImg(size_x, size_y, 1, size_c).  When size_x*size_y*size_c is 0 CImg
\* builds the empty image: all dimensions 0 and no buffer.
NewCImg(h, sx, sy, sc, content) ==
    IF sx * sy * sc = 0
    THEN [img |-> EmptyCImg, heap |-> h]
    ELSE [img  |-> [w |-> sx, h |-> sy, s |-> sc, data |-> FreeBuf(h)],
          heap |-> [h EXCEPT ![FreeBuf(h)] = content]]

\* A copy that shares the source's buffer instead of duplicating it.
CopyCImgShared(h, im) == [img |-> im, heap |-> h]

\* CImg copy constructor (non-shared source): a buffer of its own.
CopyCImg(h, im) ==
    IF im.data = Null
    THEN [img |-> EmptyCImg, heap |-> h]
    ELSE [img  |-> [im EXCEPT !.data = FreeBuf(h)],
          heap |-> [h EXCEPT ![FreeBuf(h)] = h[im.data]]]

\* ~CImg(): the buffer is released.
Release(h, im) == IF im.data = Null THEN h ELSE [h EXCEPT ![im.data] = Free]

\* im.move_to(img): swap the two, then clear the source (which now holds
\* the destination's former buffer).
MoveTo(h, src, dst) ==
    [src |-> EmptyCImg, dst |-> src, heap |-> Release(h, dst)]

\* ------------------------------------------------------------ the Image
NoImage == [live |-> FALSE, imgPath |-> "", img |-> EmptyCImg,
            width |-> 0, height |-> 0, channels |-> 0]

Thrown(err, h) == [outcome |-> err, image |-> NoImage, heap |-> h]

\* The file constructor without its channel check.
ImageFromFileUnchecked(h, path, W, H, S, p) ==
    LET decoded == NewCImg(h, W, H, S, Samples(p, W, H, S))
    IN  [outcome |-> "ok",
         image |-> [live |-> TRUE, imgPath |-> path, img |-> decoded.img,
                    width |-> decoded.img.w, height |-> decoded.img.h,
                    channels |-> decoded.img.s],
         heap |-> decoded.heap]

\* Image::Image(const string&): decoded is the CImg loaded from the file.
ImageFromFile(h, path, W, H, S, p) ==
    LET decoded == NewCImg(h, W, H, S, Samples(p, W, H, S))
        width == decoded.img.w
        height == decoded.img.h
        channels == decoded.img.s
    IN  IF channels # 1 /\ channels # 3
        THEN Thrown("FormatError", Release(decoded.heap, decoded.img))
        ELSE [outcome |-> "ok",
              image |-> [live |-> TRUE, imgPath |-> path, img |-> decoded.img,
                         width |-> width, height |-> height, channels |-> channels],
              heap |-> decoded.heap]

\* Image::Image(size_t, size_t, size_t): the buffer is left uninitialised.
ImageWithSize(h, width, height, channels, g) ==
    LET made == NewCImg(h, width, height, channels,
                        Samples(g, width, height, channels))
    IN  IF channels # 1 /\ channels # 3
        THEN Thrown("InvalidArgument", Release(made.heap, made.img))
        ELSE [outcome |-> "ok",
              image |-> [live |-> TRUE, imgPath |-> "new_img.png", img |-> made.img,
                         width |-> width, height |-> height, channels |-> channels],
              heap |-> made.heap]

\* Image::Image(size_t, size_t, size_t, double)
ImageWithSizeVal(h, width, height, channels, val) ==
    LET made == NewCImg(h, width, height, channels,
                        Filled(val, width, height, channels))
    IN  IF channels # 1 /\ channels # 3
        THEN Thrown("InvalidArgument", Release(made.heap, made.img))
        ELSE [outcome |-> "ok",
              image |-> [live |-> TRUE, imgPath |-> "new_img.png", img |-> made.img,
                         width |-> width, height |-> height, channels |-> channels],
              heap |-> made.heap]

\* Image::Image(CImg<double>&&): metadata from the store, then move_to.
ImageAdopt(h, im) ==
    LET moved == MoveTo(h, im, EmptyCImg)
    IN  [image |-> [live |-> TRUE, imgPath |-> "new_img.png", img |-> moved.dst,
                    width |-> im.w, height |-> im.h, channels |-> im.s],
         store |-> moved.src,
         heap  |-> moved.heap]

\* Image::operator=(CImg<double>&&)
ImageAssign(h, self, im) ==
    LET moved == MoveTo(h, im, self.img)
    IN  [image |-> [self EXCEPT !.imgPath = "new_img.png",
                                !.width = im.w,
                                !.height = im.h,
                                !.channels = im.s,
                                !.img = moved.dst],
         store |-> moved.src,
         heap  |-> moved.heap]

\* ------------------------------------------------------------- sampling
\* size_t subtraction.
SubSz(a, b) == (a - b) % SizeTMod

\* std::floor / std::ceil of a coordinate given in steps of 1/Grid.
Floor(w) == w \div Grid
Ceil(w) == (w + Grid - 1) \div Grid
\* double -> size_t.
ToSz(n) == n % SizeTMod

Sampled(outcome, value, oob) == [outcome |-> outcome, value |-> value, oob |-> oob]

\* at() with the two mixed corners exchanged in the weighted sum.
AtSwappedCorners(self, h, w, hh, c, ub) ==
    IF c >= self.channels
    THEN Sampled("DomainError", 0, FALSE)
    ELSE IF \/ w > Grid * SubSz(self.width, 1)
            \/ hh > Grid * SubSz(self.height, 1)
            \/ w < 0
            \/ hh < 0
    THEN Sampled("DomainError", 0, FALSE)
    ELSE LET wLow == ToSz(Floor(w))
             hLow == ToSz(Floor(hh))
             wHigh == ToSz(Ceil(w))
             hHigh == ToSz(Ceil(hh))
             x == w - Grid * wLow
             y == hh - Grid * hLow
             z00 == Pixel(self.img, h, wLow, hLow, c, ub)
             z01 == Pixel(self.img, h, wLow, hHigh, c, ub)
             z10 == Pixel(self.img, h, wHigh, hLow, c, ub)
             z11 == Pixel(self.img, h, wHigh, hHigh, c, ub)
             corners == {<<wLow, hLow>>, <<wLow, hHigh>>, <<wHigh, hLow>>, <<wHigh, hHigh>>}
             z == z00 * (Grid - x) * (Grid - y) +
                  z01 * x * (Grid - y) +
                  z10 * (Grid - x) * y +
                  z11 * x * y
         IN  IF ub.crash /\ \E p \in corners : ~InAlloc(self.img, h, p[1], p[2], c)
             THEN Sampled("fault", 0, TRUE)
             ELSE Sampled("ok", z,
                          \E p \in corners : ~InRange(self.img, p[1], p[2], c))

\* at() rejecting the last column and the last row (>= for >).
AtStrictBound(self, h, w, hh, c, ub) ==
    IF c >= self.channels
    THEN Sampled("DomainError", 0, FALSE)
    ELSE IF \/ w >= Grid * SubSz(self.width, 1)
            \/ hh >= Grid * SubSz(self.height, 1)
            \/ w < 0
            \/ hh < 0
    THEN Sampled("DomainError", 0, FALSE)
    ELSE LET wLow == ToSz(Floor(w))
             hLow == ToSz(Floor(hh))
             wHigh == ToSz(Ceil(w))
             hHigh == ToSz(Ceil(hh))
             x == w - Grid * wLow
             y == hh - Grid * hLow
             z00 == Pixel(self.img, h, wLow, hLow, c, ub)
             z01 == Pixel(self.img, h, wLow, hHigh, c, ub)
             z10 == Pixel(self.img, h, wHigh, hLow, c, ub)
             z11 == Pixel(self.img, h, wHigh, hHigh, c, ub)
             corners == {<<wLow, hLow>>, <<wLow, hHigh>>, <<wHigh, hLow>>, <<wHigh, hHigh>>}
             z == z00 * (Grid - x) * (Grid - y) +
                  z10 * x * (Grid - y) +
                  z01 * (Grid - x) * y +
                  z11 * x * y
         IN  IF ub.crash /\ \E p \in corners : ~InAlloc(self.img, h, p[1], p[2], c)
             THEN Sampled("fault", 0, TRUE)
             ELSE Sampled("ok", z,
                          \E p \in corners : ~InRange(self.img, p[1], p[2], c))

\* Image::at(w, h, c), w and h in steps of 1/Grid.
At(self, h, w, hh, c, ub) ==
    IF c >= self.channels
    THEN Sampled("DomainError", 0, FALSE)
    ELSE IF \/ w > Grid * SubSz(self.width, 1)
            \/ hh > Grid * SubSz(self.height, 1)
            \/ w < 0
            \/ hh < 0
    THEN Sampled("DomainError", 0, FALSE)
    ELSE LET wLow == ToSz(Floor(w))
             hLow == ToSz(Floor(hh))
             wHigh == ToSz(Ceil(w))
             hHigh == ToSz(Ceil(hh))
             x == w - Grid * wLow
             y == hh - Grid * hLow
             z00 == Pixel(self.img, h, wLow, hLow, c, ub)
             z01 == Pixel(self.img, h, wLow, hHigh, c, ub)
             z10 == Pixel(self.img, h, wHigh, hLow, c, ub)
             z11 == Pixel(self.img, h, wHigh, hHigh, c, ub)
             corners == {<<wLow, hLow>>, <<wLow, hHigh>>, <<wHigh, hLow>>, <<wHigh, hHigh>>}
             z == z00 * (Grid - x) * (Grid - y) +
                  z10 * x * (Grid - y) +
                  z01 * (Grid - x) * y +
                  z11 * x * y
         IN  IF ub.crash /\ \E p \in corners : ~InAlloc(self.img, h, p[1], p[2], c)
             THEN Sampled("fault", 0, TRUE)
             ELSE Sampled("ok", z,
                          \E p \in corners : ~InRange(self.img, p[1], p[2], c))

\* atH() with the two weights exchanged.
AtHSwappedWeights(self, h, w, row, c, ub) ==
    LET wLow == ToSz(Floor(w))
        wHigh == ToSz(Ceil(w))
        x == w - Grid * wLow
        z0 == Pixel(self.img, h, wLow, row, c, ub)
        z1 == Pixel(self.img, h, wHigh, row, c, ub)
        z == z0 * x + z1 * (Grid - x)
    IN  IF ub.crash /\ \E p \in {wLow, wHigh} : ~InAlloc(self.img, h, p, row, c)
        THEN Sampled("fault", 0, TRUE)
        ELSE Sampled("ok", z, \E p \in {wLow, wHigh} : ~InRange(self.img, p, row, c))

\* Image::atH(w, h, c), w in steps of 1/Grid.
AtH(self, h, w, row, c, ub) ==
    LET wLow == ToSz(Floor(w))
        wHigh == ToSz(Ceil(w))
        x == w - Grid * wLow
        z0 == Pixel(self.img, h, wLow, row, c, ub)
        z1 == Pixel(self.img, h, wHigh, row, c, ub)
        z == z0 * (Grid - x) + z1 * x
    IN  IF ub.crash /\ \E p \in {wLow, wHigh} : ~InAlloc(self.img, h, p, row, c)
        THEN Sampled("fault", 0, TRUE)
        ELSE Sampled("ok", z, \E p \in {wLow, wHigh} : ~InRange(self.img, p, row, c))

\* ------------------------------------------------------------ grayscale
\* red * 0.3 + green * 0.59 + blue * 0.11, all in hundredths (exact: the
\* samples of a multi-channel buffer are whole numbers).
Luminance(red, green, blue) == (red * 30 + green * 59 + blue * 11) \div 100

\* Image::toGrayscale()
ToGrayscale(self, h, g, ub) ==
    IF self.channels = 1
    THEN LET copy == CopyCImg(h, self.img)
         IN  [outcome |-> "ok", oob |-> FALSE,
              image |-> [self EXCEPT !.img = copy.img],
              heap |-> copy.heap]
    ELSE LET grayscale == ImageWithSize(h, self.width, self.height, 1, g)
             pixels == {<<w, hh>> \in (0..(self.width - 1)) \X (0..(self.height - 1)) : TRUE}
             gray(w, hh) == Luminance(Pixel(self.img, h, w, hh, 0, ub),
                                      Pixel(self.img, h, w, hh, 1, ub),
                                      Pixel(self.img, h, w, hh, 2, ub))
             gimg == grayscale.image.img
             written == IF gimg.data = Null
                        THEN grayscale.heap
                        ELSE [grayscale.heap EXCEPT ![gimg.data] =
                                [k \in 1..(gimg.w * gimg.h) |->
                                    gray((k - 1) % gimg.w, (k - 1) \div gimg.w)]]
             wild == \E p \in pixels : \E c \in 0..2 :
                        ~InAlloc(self.img, h, p[1], p[2], c)
             outside == \/ \E p \in pixels : \E c \in 0..2 :
                              ~InRange(self.img, p[1], p[2], c)
                        \/ \E p \in pixels : ~InRange(gimg, p[1], p[2], 0)
         IN  IF ub.crash /\ wild
             THEN [outcome |-> "fault", oob |-> TRUE, image |-> NoImage, heap |-> h]
             ELSE [outcome |-> "ok", oob |-> outside,
                   image |-> grayscale.image, heap |-> written]

\* -------------------------------------------------------------- actions
Op(op, slot, src, outcome, value, oob, a, b, c, store) ==
    [op |-> op, slot |-> slot, src |-> src, outcome |-> outcome, value |-> value,
     oob |-> oob, a |-> a, b |-> b, c |-> c, store |-> store]

Init ==
    /\ images = [i \in Slots |-> NoImage]
    /\ heap = [b \in BufIds |-> Free]
    /\ last = Op("none", 0, 0, "ok", 0, FALSE, 0, 0, 0, EmptyCImg)

\* The caller is between two calls: the last result has been taken.
Idle == last.op = "none"

Construct(i, op, r, a, b, c) ==
    /\ images' = IF r.outcome = "ok" THEN [images EXCEPT ![i] = r.image] ELSE images
    /\ heap' = r.heap
    /\ last' = Op(op, i, 0, r.outcome, 0, FALSE, a, b, c, EmptyCImg)

FromFile(i) ==
    /\ Idle
    /\ ~images[i].live
    /\ \E W \in 1..MaxDim, H \in 1..MaxDim, S \in 1..MaxSpectrum, p \in Patterns :
         \E r \in {ImageFromFile(heap, "file.png", W, H, S, p)} :
            Construct(i, "FromFile", r, W, H, S)

WithSize(i) ==
    /\ Idle
    /\ ~images[i].live
    /\ \E W \in Dims, H \in Dims, S \in Spectra, g \in GarbagePatterns :
         \E r \in {ImageWithSize(heap, W, H, S, g)} :
            Construct(i, "WithSize", r, W, H, S)

WithSizeVal(i) ==
    /\ Idle
    /\ ~images[i].live
    /\ \E W \in Dims, H \in Dims, S \in Spectra, val \in FillValues :
         \E r \in {ImageWithSizeVal(heap, W, H, S, val)} :
            Construct(i, "WithSizeVal", r, W, H, S)

\* The caller's store: any populated or empty CImg.
AdoptBuffer(i) ==
    /\ Idle
    /\ ~images[i].live
    /\ \E sh \in StoreShapes, p \in StorePatterns :
         \E store \in {NewCImg(heap, sh[1], sh[2], sh[3], Samples(p, sh[1], sh[2], sh[3]))} :
          \E r \in {ImageAdopt(store.heap, store.img)} :
            /\ images' = [images EXCEPT ![i] = r.image]
            /\ heap' = r.heap
            /\ last' = Op("AdoptBuffer", i, 0, "ok", 0, FALSE,
                          store.img.w, store.img.h, store.img.s, r.store)

AssignBuffer(i) ==
    /\ Idle
    /\ images[i].live
    /\ \E sh \in StoreShapes, p \in StorePatterns :
         \E store \in {NewCImg(heap, sh[1], sh[2], sh[3], Samples(p, sh[1], sh[2], sh[3]))} :
          \E r \in {ImageAssign(store.heap, images[i], store.img)} :
            /\ images' = [images EXCEPT ![i] = r.image]
            /\ heap' = r.heap
            /\ last' = Op("AssignBuffer", i, 0, "ok", 0, FALSE,
                          store.img.w, store.img.h, store.img.s, r.store)

AtOp(i) ==
    /\ Idle
    /\ images[i].live
    /\ \E w \in Coords, hh \in Coords, c \in Spectra, ub \in Oracles :
         \E r \in {At(images[i], heap, w, hh, c, ub)} :
            /\ last' = Op("at", i, 0, r.outcome, r.value, r.oob, w, hh, c, EmptyCImg)
            /\ UNCHANGED <<images, heap>>

AtHOp(i) ==
    /\ Idle
    /\ images[i].live
    /\ \E w \in Coords, row \in Dims, c \in Spectra, ub \in Oracles :
         \E r \in {AtH(images[i], heap, w, row, c, ub)} :
            /\ last' = Op("atH", i, 0, r.outcome, r.value, r.oob, w, row, c, EmptyCImg)
            /\ UNCHANGED <<images, heap>>

ToGrayscaleOp(i, j) ==
    /\ Idle
    /\ images[i].live
    /\ ~images[j].live
    /\ \E g \in GarbagePatterns, ub \in Oracles :
         \E r \in {ToGrayscale(images[i], heap, g, ub)} :
            /\ images' = IF r.outcome = "ok" THEN [images EXCEPT ![j] = r.image] ELSE images
            /\ heap' = r.heap
            /\ last' = Op("toGrayscale", j, i, r.outcome, 0, r.oob, 0, 0, 0, EmptyCImg)

\* An instance goes out of scope: its buffer is released.
Destroy(i) ==
    /\ Idle
    /\ images[i].live
    /\ images' = [images EXCEPT ![i] = NoImage]
    /\ heap' = Release(heap, images[i].img)
    /\ last' = Op("destroy", i, 0, "ok", 0, FALSE, 0, 0, 0, EmptyCImg)

\* The caller takes the result of the last call.
Return ==
    /\ ~Idle
    /\ last' = Op("none", 0, 0, "ok", 0, FALSE, 0, 0, 0, EmptyCImg)
    /\ UNCHANGED <<images, heap>>

Next ==
    \/ \E i \in Slots : FromFile(i)
    \/ \E i \in Slots : WithSize(i)
    \/ \E i \in Slots : WithSizeVal(i)
    \/ \E i \in Slots : AdoptBuffer(i)
    \/ \E i \in Slots : AssignBuffer(i)
    \/ \E i \in Slots : AtOp(i)
    \/ \E i \in Slots : AtHOp(i)
    \/ \E i \in Slots, j \in Slots : ToGrayscaleOp(i, j)
    \/ \E i \in Slots : Destroy(i)
    \/ Return

\* Every call a program can make.  The two specifications below are the
\* two families of callers that are model-checked.
Spec == Init /\ [][Next]_vars

\* Programs that build, convert, reassign and drop images without sampling
\* them: instance 1 is built by the caller, instance 2 by toGrayscale().
NextLife ==
    \/ FromFile(1)
    \/ WithSize(1)
    \/ WithSizeVal(1)
    \/ AdoptBuffer(1)
    \/ \E i \in Slots : AssignBuffer(i)
    \/ ToGrayscaleOp(1, 2)
    \/ \E i \in Slots : Destroy(i)
    \/ Return

SpecLife == Init /\ [][NextLife]_vars

\* Programs that hold one image, possibly derive its grayscale, and sample
\* them: a new image is built once the former ones are gone.
NoneAlive == \A j \in Slots : ~images[j].live
Alone(i) == \A j \in Slots \ {i} : ~images[j].live

NextSample ==
    \/ NoneAlive /\ FromFile(1)
    \/ NoneAlive /\ WithSize(1)
    \/ NoneAlive /\ WithSizeVal(1)
    \/ NoneAlive /\ AdoptBuffer(1)
    \/ \E i \in Slots : Alone(i) /\ AssignBuffer(i)
    \/ ToGrayscaleOp(1, 2)
    \/ \E i \in Slots : AtOp(i)
    \/ \E i \in Slots : AtHOp(i)
    \/ \E i \in Slots : Destroy(i)
    \/ Return

SpecSample == Init /\ [][NextSample]_vars

\* ---------------------------------------------------------------- claims
\* The instance the last call was made on (or made), and its samples.
Target == images[last.slot]
SamplesOf(self, h) == IF self.img.data = Null THEN <<>> ELSE h[self.img.data]

\* operator()(x, y, c): the discrete sample, read straight from the buffer.
DiscreteAt(self, h, x, y, c) == h[self.img.data][Offset(self.img, x, y, c) + 1]

\* C1: every Image instance that exists has channels equal to 1 or 3,
\* whatever store was adopted or assigned.
C1_ChannelsOneOrThree ==
    \A i \in Slots : images[i].live => images[i].channels \in {1, 3}

\* C2: FromFile with a decoded channel count outside {1,3} fails with
\* FormatError, WithSize (with or without fill value) with channels outside
\* {1,3} fails with InvalidArgument, neither yields an instance; with
\* channels in {1,3} each succeeds with the requested (decoded) width,
\* height and channels.
C2_ConstructionValidates ==
    last.op \in {"FromFile", "WithSize", "WithSizeVal"} =>
        IF last.c \in {1, 3}
        THEN /\ last.outcome = "ok"
             /\ Target.live
             /\ Target.width = last.a
             /\ Target.height = last.b
             /\ Target.channels = last.c
        ELSE /\ last.outcome = IF last.op = "FromFile" THEN "FormatError"
                                                       ELSE "InvalidArgument"
             /\ ~Target.live
             /\ \A b \in BufIds :
                    heap[b] # Free => \E i \in Slots : images[i].live /\ images[i].img.data = b

C2_Witness ==
    /\ last.op = "FromFile"
    /\ last.c = 2
    /\ last.outcome = "FormatError"
    /\ ~Target.live

\* C3: at(wx, hy, c) with c >= channels, or wx < 0, or wx > width-1, or
\* hy < 0, or hy > height-1 fails with DomainError, also on images whose
\* width or height is 0.
C3_AtRejectsOutOfRange ==
    (/\ last.op = "at"
     /\ \/ last.c >= Target.channels
        \/ last.a < 0
        \/ last.a > Grid * (Target.width - 1)
        \/ last.b < 0
        \/ last.b > Grid * (Target.height - 1))
    => last.outcome = "DomainError"

\* C4: every buffer index read by at() after its validation, and every index
\* read or written by toGrayscale(), lies within the extent of the buffer
\* accessed.
C4_AccessesInRange ==
    last.op \in {"at", "toGrayscale"} => ~last.oob

\* C5: at(x, y, c) at integer x in [0, width-1], y in [0, height-1] and
\* c < channels returns exactly the discrete sample at (x, y, c), the last
\* column and the last row included.
C5_AtIntegerIsDiscrete ==
    (/\ last.op = "at"
     /\ last.c < Target.channels
     /\ last.a % Grid = 0 /\ 0 <= last.a /\ last.a <= Grid * (Target.width - 1)
     /\ last.b % Grid = 0 /\ 0 <= last.b /\ last.b <= Grid * (Target.height - 1))
    => /\ last.outcome = "ok"
       /\ last.value = Grid * Grid *
                DiscreteAt(Target, heap, last.a \div Grid, last.b \div Grid, last.c)

\* at(1, 1, 0), the last column and row of a 2x2 file image.
C5_Witness ==
    /\ last.op = "at"
    /\ last.outcome = "ok"
    /\ Target.width = 2 /\ Target.height = 2 /\ Target.imgPath = "file.png"
    /\ last.a = Grid /\ last.b = Grid /\ last.c = 0
    /\ last.value = Grid * Grid * 400

\* C6: for 0 <= wx <= width-1, 0 <= hy <= height-1 on a grid of fractions
\* and c < channels, at(wx, hy, c) is
\*   z00*(1-x)*(1-y) + z10*x*(1-y) + z01*(1-x)*y + z11*x*y
\* with x, y the fractional parts and z.. the samples at the floor/ceil
\* corners; at the centre of a unit cell it is the mean of the four corners.
C6_AtIsBilinear ==
    (/\ last.op = "at"
     /\ last.c < Target.channels
     /\ 0 <= last.a /\ last.a <= Grid * (Target.width - 1)
     /\ 0 <= last.b /\ last.b <= Grid * (Target.height - 1))
    => LET fx == last.a % Grid
           fy == last.b % Grid
           xl == (last.a - fx) \div Grid
           xh == IF fx = 0 THEN xl ELSE xl + 1
           yl == (last.b - fy) \div Grid
           yh == IF fy = 0 THEN yl ELSE yl + 1
           z00 == DiscreteAt(Target, heap, xl, yl, last.c)
           z01 == DiscreteAt(Target, heap, xl, yh, last.c)
           z10 == DiscreteAt(Target, heap, xh, yl, last.c)
           z11 == DiscreteAt(Target, heap, xh, yh, last.c)
       IN  /\ last.outcome = "ok"
           /\ last.value = z00 * (Grid - fx) * (Grid - fy) + z10 * fx * (Grid - fy)
                           + z01 * (Grid - fx) * fy + z11 * fx * fy
           /\ (2 * fx = Grid /\ 2 * fy = Grid) =>
                  4 * last.value = Grid * Grid * (z00 + z01 + z10 + z11)

\* at(0.5, 0.5, 0) on the 2x2 image [[1,2],[3,4]] is 2.5.
C6_Witness ==
    /\ last.op = "at"
    /\ last.outcome = "ok"
    /\ Target.width = 2 /\ Target.height = 2 /\ Target.channels = 1
    /\ SamplesOf(Target, heap) = <<100, 300, 200, 400>>
    /\ 2 * last.a = Grid /\ 2 * last.b = Grid /\ last.c = 0
    /\ 2 * last.value = 5 * 100 * Grid * Grid

\* C7: toGrayscale() on an image with channels != 1 returns a 1-channel image
\* of the same width and height whose sample at every pixel is
\* 0.3*R + 0.59*G + 0.11*B of the source's samples in channels 0, 1, 2.
C7_GrayIsLuminance ==
    (last.op = "toGrayscale" /\ images[last.src].channels # 1)
    => LET source == images[last.src]
       IN  /\ last.outcome = "ok"
           /\ Target.live
           /\ Target.channels = 1
           /\ Target.width = source.width
           /\ Target.height = source.height
           /\ \A w \in 0..(source.width - 1), hh \in 0..(source.height - 1) :
                /\ \A c \in 0..2 : InRange(source.img, w, hh, c)
                /\ InRange(Target.img, w, hh, 0)
                /\ 100 * DiscreteAt(Target, heap, w, hh, 0)
                     = 30 * DiscreteAt(source, heap, w, hh, 0)
                       + 59 * DiscreteAt(source, heap, w, hh, 1)
                       + 11 * DiscreteAt(source, heap, w, hh, 2)

\* C8: toGrayscale() never changes its source; on a 1-channel image it
\* returns an image with the same width, height, channels and samples whose
\* buffer is not the source's; an AssignBuffer on one image leaves every
\* other image's metadata and samples as they were.
C8_Step ==
    /\ last'.op = "toGrayscale" =>
         LET source == images[last'.src]
             result == images'[last'.slot]
         IN  /\ images'[last'.src] = source
             /\ SamplesOf(source, heap') = SamplesOf(source, heap)
             /\ source.channels = 1 =>
                  /\ last'.outcome = "ok"
                  /\ result.live
                  /\ result.width = source.width
                  /\ result.height = source.height
                  /\ result.channels = source.channels
                  /\ SamplesOf(result, heap') = SamplesOf(source, heap)
                  /\ source.img.data # Null => result.img.data # source.img.data
    /\ last'.op = "AssignBuffer" =>
         \A j \in Slots \ {last'.slot} :
             /\ images'[j] = images[j]
             /\ SamplesOf(images[j], heap') = SamplesOf(images[j], heap)

C8_GrayscaleLeavesSourceAlone == [][C8_Step]_vars

\* A 1-channel file image was copied by toGrayscale(), then the original
\* was assigned a new store: the copy still holds the file's samples.
C8_Witness ==
    /\ last.op = "AssignBuffer"
    /\ last.slot = 1
    /\ last.a = 1 /\ last.b = 1 /\ last.c = 1
    /\ images[2].live
    /\ images[2].imgPath = "file.png"
    /\ images[2].channels = 1
    /\ SamplesOf(images[2], heap) = <<100, 300, 200, 400>>

\* C9: after AssignBuffer(store) or AdoptBuffer(store) the image has the
\* store's former shape and samples and the synthetic label, the store is
\* empty, and the buffer owned before is released (every allocated buffer
\* is owned by exactly one image); hence every image's width, height and
\* channels agree with the shape of the buffer it owns.
C9_AssignTakesOver ==
    /\ last.op \in {"AssignBuffer", "AdoptBuffer"} =>
         /\ Target.width = last.a
         /\ Target.height = last.b
         /\ Target.channels = last.c
         /\ SamplesOf(Target, heap) = Samples("ramp", last.a, last.b, last.c)
         /\ Target.imgPath = "new_img.png"
         /\ last.store = EmptyCImg
         /\ \A b \in BufIds :
                heap[b] # Free =>
                    Cardinality({i \in Slots : images[i].live /\ images[i].img.data = b}) = 1
    /\ \A i \in Slots :
         images[i].live =>
            /\ images[i].width = images[i].img.w
            /\ images[i].height = images[i].img.h
            /\ images[i].channels = images[i].img.s

\* C10: atH(wx, h, c) for a row h in [0, height-1], c < channels and wx in
\* [0, width-1] is z0*(1-x) + z1*x over the floor/ceil columns, is the
\* discrete sample at integer wx, and equals at(wx, h, c).
C10_AtHIsLinear ==
    (/\ last.op = "atH"
     /\ last.c < Target.channels
     /\ last.b <= Target.height - 1
     /\ 0 <= last.a /\ last.a <= Grid * (Target.width - 1))
    => LET fx == last.a % Grid
           xl == (last.a - fx) \div Grid
           xh == IF fx = 0 THEN xl ELSE xl + 1
           z0 == DiscreteAt(Target, heap, xl, last.b, last.c)
           z1 == DiscreteAt(Target, heap, xh, last.b, last.c)
       IN  /\ last.outcome = "ok"
           /\ last.value = z0 * (Grid - fx) + z1 * fx
           /\ fx = 0 => last.value = Grid * DiscreteAt(Target, heap, xl, last.b, last.c)
           /\ \A ub \in Oracles :
                Grid * last.value =
                    At(Target, heap, last.a, Grid * last.b, last.c, ub).value

\* atH(0.25, 1, 0) on the 2x2 image [[1,2],[3,4]] is 2 * 0.75 + 4 * 0.25 = 2.5.
C10_Witness ==
    /\ last.op = "atH"
    /\ last.outcome = "ok"
    /\ Target.width = 2 /\ Target.height = 2 /\ Target.channels = 1
    /\ SamplesOf(Target, heap) = <<100, 300, 200, 400>>
    /\ 4 * last.a = Grid /\ last.b = 1 /\ last.c = 0
    /\ 2 * last.value = 5 * 100 * Grid

====
